---- MODULE Spec2Model ----
(***************************************************************************)
(* The purchase-order pipeline of po-processor-app: transform_data of      *)
(* backend/data_transformer.py (reference expansion and order              *)
(* aggregation) followed by optimize_allocations of                        *)
(* backend/inventory_optimizer.py (merge of the external tables and the    *)
(* per-warehouse allocation flags), driven as frontend/app.py drives them. *)
(*                                                                         *)
(* Data frames are sequences of records, one record per row, in row order. *)
(* Quantities, factors, stock levels and prices are whole numbers (case    *)
(* counts, units, cents); a quotient such as price / factor is kept as the *)
(* exact fraction [num, den].  Text is a sequence of character codes, so   *)
(* that formatting a number is a real conversion.  None is the empty       *)
(* sequence; NaN is a value of its own.                                    *)
(***************************************************************************)
EXTENDS Integers, Sequences, FiniteSets, TLC

VARIABLES
    po_df,              \* st.session_state['extracted_po_data']
    product_variants,   \* the catalog rows returned by get_products
    starting_so_ref,    \* st.session_state['config_start_so']
    order_summaries,    \* st.session_state['order_summaries']
    line_details,       \* st.session_state['line_details']
    transform_errors,   \* st.session_state['transform_errors']
    historical_sales,   \* the table handed to the latest optimize_allocations
    store_inventory,    \* the table handed to the latest optimize_allocations
    supabase_client,    \* st.session_state['supabase_client'] is connected
    page,               \* "loaded", "transformed" or "optimized"
    runs,               \* number of optimize_allocations calls so far
    pdf,                \* extract_from_file: the pages, each its text lines
    page_num,           \* extract_from_file: the page being read
    line_num,           \* extract_from_file: the line being read
    current_po,         \* extract_from_file: the header fields seen so far
    data,               \* extract_from_file: the items collected so far
    valid_data,         \* extract_from_file: the returned items
    errors,             \* extract_from_file: the returned diagnostics
    scan,               \* "idle", "scanning" or "returned"
    files,              \* process_multiple_pdfs: the documents of the batch
    file_num,           \* process_multiple_pdfs: the document being processed
    all_data,           \* process_multiple_pdfs: the items of the documents so far
    all_errors,         \* process_multiple_pdfs: their diagnostics so far
    returned_df,        \* process_multiple_pdfs: the rows of the returned table
    batch               \* "idle", "running" or "returned"

vars == <<po_df, product_variants, starting_so_ref, order_summaries,
          line_details, transform_errors, historical_sales, store_inventory,
          supabase_client, page, runs,
          pdf, page_num, line_num, current_po, data, valid_data, errors, scan,
          files, file_num, all_data, all_errors, returned_df, batch>>

\* The variables of the pipeline pages and those of extract_from_file.
pipeline_vars == <<po_df, product_variants, starting_so_ref, order_summaries,
                   line_details, transform_errors, historical_sales,
                   store_inventory, supabase_client, page, runs>>
scan_vars == <<pdf, page_num, line_num, current_po, data, valid_data, errors,
               scan>>
batch_vars == <<files, file_num, all_data, all_errors, returned_df, batch>>

(***************************************************************************)
(* Bounds of the explored inputs.                                          *)
(***************************************************************************)
MaxQty == 2
MaxFactor == 2
MaxVariants == 3
MaxPOLines == 3
MaxAllocLines == 2
MaxRuns == 2
MaxFiles == 3

(***************************************************************************)
(* Values.                                                                 *)
(***************************************************************************)
None == <<>>
NaN == -99999

Frac(n, d) == [num |-> n, den |-> d]
FracEq(a, b) == a.num * b.den = b.num * a.den

RECURSIVE Str(_)
\* str(n) of a non-negative integer: its decimal digits as character codes.
Str(n) == IF n < 10 THEN <<48 + n>> ELSE Str(n \div 10) \o <<48 + (n % 10)>>

RECURSIVE Sorted(_)
\* sorted(...) of a set of numbers, ascending.
Sorted(S) ==
    IF S = {} THEN <<>>
    ELSE LET m == CHOOSE x \in S : \A y \in S : x <= y
         IN <<m>> \o Sorted(S \ {m})

Range(s) == {s[i] : i \in DOMAIN s}

RECURSIVE Concat(_)
\* The rows of a sequence of row blocks, in order.
Concat(ss) == IF ss = <<>> THEN <<>> ELSE Head(ss) \o Concat(Tail(ss))

(***************************************************************************)
(* Settings: warehouse_mapping.cw_stores.                                  *)
(***************************************************************************)
cw_stores == {9}

\* DataTransformer.get_warehouse_for_store
get_warehouse_for_store(store_id) ==
    IF store_id \in cw_stores THEN "CW" ELSE "CE"

(***************************************************************************)
(* transform_data: reference expansion.                                    *)
(***************************************************************************)
\* products_df[products_df['default_code'] == internal_ref]
matched_products(products, internal_ref) ==
    SelectSeq(products, LAMBDA p : p.default_code = internal_ref)

\* product.get('x_studio_tt_om_int') or 1.0
units_per_order(product) ==
    IF product.x_studio_tt_om_int = 0 THEN 1 ELSE product.x_studio_tt_om_int

\* matched_products.iloc[0].get('x_studio_tt_om_int', 1.0)
base_units_per_case(matched) == matched[1].x_studio_tt_om_int

\* total_units_bundle: qty x first factor when split, qty x own factor otherwise
total_units_bundle(total_ordered_qty, matched, product) ==
    IF Len(matched) > 1
    THEN total_ordered_qty * base_units_per_case(matched)
    ELSE total_ordered_qty * units_per_order(product)

units_this_product_NoRemainder(bundle, num_products, idx) ==
    IF num_products > 1 THEN bundle \div num_products ELSE bundle

\* units_this_product; idx is the 0-based position among the matches
units_this_product(bundle, num_products, idx) ==
    IF num_products > 1
    THEN (bundle \div num_products)
         + (IF idx = 0 THEN bundle % num_products ELSE 0)
    ELSE bundle

unit_price_per_item_Undivided(po_price, matched, product) ==
    Frac(po_price, 1)

\* unit_price_per_item, as an exact fraction
unit_price_per_item(po_price, matched, product) ==
    IF Len(matched) > 1
    THEN Frac(po_price, base_units_per_case(matched))
    ELSE Frac(po_price, units_per_order(product))

\* The line_data record built for one (PO row, matched product) pair.
\* po_row is the index label of the PO row the line was expanded from.
line_data(po_row, row, matched, k) ==
    LET product == matched[k]
        bundle == total_units_bundle(row.num_of_order, matched, product)
        units == units_this_product(bundle, Len(matched), k - 1)
        unit_price == unit_price_per_item(row.price, matched, product)
        wh == get_warehouse_for_store(row.store_id)
    IN [po_row |-> po_row,
        store_id |-> row.store_id,
        order_date |-> row.order_date,
        delivery_date |-> row.delivery_date,
        po_number |-> Str(row.po_no),
        internal_reference |-> row.internal_reference,
        product_id |-> product.id,
        barcode |-> product.barcode,
        warehouse |-> wh,
        units_per_order |-> units_per_order(product),
        original_qty |-> row.num_of_order,
        po_unit_price |-> row.price,
        product_uom_qty |-> units,
        price_unit |-> unit_price,
        total_price |-> Frac(units * unit_price.num, unit_price.den),
        odoo_on_hand |-> IF wh = "CE" THEN product.x_studio_canada_east_on_hand
                         ELSE product.x_studio_canada_west_on_hand,
        odoo_available |-> IF wh = "CE" THEN product.x_studio_ce_available
                           ELSE product.x_studio_cw_available,
        store_on_hand |-> 0,
        hist_avg_sales |-> 0,
        flagged |-> FALSE,
        flag_reason |-> None,
        shortage_details |-> None,
        so_reference |-> None]

\* The body of "for _, row in po_df.iterrows()": the lines of one PO row.
expand_row(df, products, i) ==
    LET matched == matched_products(products, df[i].internal_reference)
    IN [k \in 1..Len(matched) |-> line_data(i, df[i], matched, k)]

expanded_lines(df, products) ==
    Concat([i \in 1..Len(df) |-> expand_row(df, products, i)])

\* errors.append(f"Product not found in Odoo: {ref} (Store: ..., PO: ...)")
not_found_error(i, row) ==
    [kind |-> "Product not found in Odoo", po_row |-> i,
     internal_reference |-> row.internal_reference,
     store_id |-> row.store_id, po_no |-> row.po_no]

fatal_error(text) ==
    [kind |-> text, po_row |-> 0, internal_reference |-> "",
     store_id |-> 0, po_no |-> 0]

not_found_errors_Silent(df, products) ==
    <<>>

not_found_errors(df, products) ==
    Concat([i \in 1..Len(df) |->
        IF matched_products(products, df[i].internal_reference) = <<>>
        THEN <<not_found_error(i, df[i])>> ELSE <<>>])

(***************************************************************************)
(* transform_data: order aggregation.                                      *)
(***************************************************************************)
\* order_line_details.dropna(subset=['store_id'])
dropna_store_id(lines) == SelectSeq(lines, LAMBDA l : l.store_id # NaN)

\* sorted(order_line_details['store_id'].unique().tolist())
unique_stores(lines) == Sorted({lines[i].store_id : i \in DOMAIN lines})

so_prefix == <<79, 65, 84, 83, 48, 48>>    \* "OATS00"

so_ref_Constant(current_ref_num) == so_prefix \o Str(0)

\* f"OATS00{current_ref_num}"
so_ref(current_ref_num) == so_prefix \o Str(current_ref_num)

current_ref_num_Gap(S, index) == S + 2 * index

\* starting_so_ref + index, index 0-based
current_ref_num(S, index) == S + index

\* store_so_map: the code of each store of unique_stores
store_so_map(lines, S) ==
    LET stores == unique_stores(lines)
    IN [store_id \in Range(stores) |->
           LET index == CHOOSE j \in DOMAIN stores : stores[j] = store_id
           IN so_ref(current_ref_num(S, index - 1))]

RECURSIVE LexLess(_, _)
\* Python's str order on two texts
LexLess(a, b) ==
    IF b = <<>> THEN FALSE
    ELSE IF a = <<>> THEN TRUE
    ELSE IF a[1] # b[1] THEN a[1] < b[1]
    ELSE LexLess(Tail(a), Tail(b))

RECURSIVE SortedText(_)
\* sorted(...) of a set of texts
SortedText(S) ==
    IF S = {} THEN <<>>
    ELSE LET m == CHOOSE x \in S : \A y \in S \ {x} : LexLess(x, y)
         IN <<m>> \o SortedText(S \ {m})

Join_FirstOnly(texts) ==
    IF texts = <<>> THEN <<>> ELSE texts[1]

RECURSIVE Join(_)
\* ", ".join(po_list)
Join(texts) ==
    IF texts = <<>> THEN <<>>
    ELSE IF Len(texts) = 1 THEN texts[1]
    ELSE texts[1] \o <<44, 32>> \o Join(Tail(texts))

SumFrac_FirstOnly(fs) ==
    IF fs = <<>> THEN Frac(0, 1) ELSE fs[1]

RECURSIVE SumFrac(_)
\* group['total_price'].sum()
SumFrac(fs) ==
    IF fs = <<>> THEN Frac(0, 1)
    ELSE LET r == SumFrac(Tail(fs))
         IN Frac(fs[1].num * r.den + r.num * fs[1].den, fs[1].den * r.den)

\* The header appended for the store at 0-based position index.
summary(lines, S, index) ==
    LET store_id == unique_stores(lines)[index + 1]
        group == SelectSeq(lines, LAMBDA l : l.store_id = store_id)
        po_list == SortedText({group[i].po_number : i \in DOMAIN group})
    IN [store_id |-> store_id,
        warehouse |-> get_warehouse_for_store(store_id),
        po_count |-> Len(po_list),
        po_numbers |-> Join(po_list),
        so_reference |-> so_ref(current_ref_num(S, index)),
        order_date |-> group[1].order_date,
        delivery_date |-> group[1].delivery_date,
        total_lines |-> Len(group),
        total_value |-> SumFrac([i \in DOMAIN group |-> group[i].total_price])]

\* order_line_details['so_reference'] = order_line_details['store_id'].map(store_so_map)
with_so_reference(lines, S) ==
    [i \in DOMAIN lines |->
        [lines[i] EXCEPT !.so_reference = store_so_map(lines, S)[lines[i].store_id]]]

transform_data_NoEarlyReturn(df, products, S) ==
    LET lines == dropna_store_id(expanded_lines(df, products))
    IN [summaries |-> [j \in 1..Len(unique_stores(lines)) |->
                          summary(lines, S, j - 1)],
        lines |-> with_so_reference(lines, S),
        errors |-> not_found_errors(df, products)]

\* DataTransformer.transform_data: (order_summaries, order_line_details, errors)
transform_data(df, products, S) ==
    IF df = <<>>
    THEN [summaries |-> <<>>, lines |-> <<>>,
          errors |-> <<fatal_error("No PO data to transform")>>]
    ELSE IF products = <<>>
    THEN [summaries |-> <<>>, lines |-> <<>>,
          errors |-> <<fatal_error("No product data fetched from Odoo")>>]
    ELSE LET lines == dropna_store_id(expanded_lines(df, products))
         IN [summaries |-> [j \in 1..Len(unique_stores(lines)) |->
                               summary(lines, S, j - 1)],
             lines |-> with_so_reference(lines, S),
             errors |-> not_found_errors(df, products)]

(***************************************************************************)
(* The inputs: PO tables as process_multiple_pdfs returns them (validated  *)
(* rows, sorted by Store ID and PO No.) and catalogs as get_products       *)
(* returns them (ids are unique; row order is the provider's).             *)
(***************************************************************************)
Refs == {"R1", "R2"}
Prices == {12, 24}
StartRefs == {391, 999}

Header(store_id, po_no, order_date, delivery_date) ==
    [store_id |-> store_id, po_no |-> po_no,
     order_date |-> order_date, delivery_date |-> delivery_date]

POHeaders ==
    {Header(5, 101, 2, 3), Header(5, 102, 1, 4),
     Header(7, 103, 1, 2), Header(9, 104, 3, 3)}

PORow(h, internal_reference, num_of_order, price) ==
    [store_id |-> h.store_id, po_no |-> h.po_no,
     order_date |-> h.order_date, delivery_date |-> h.delivery_date,
     internal_reference |-> internal_reference,
     num_of_order |-> num_of_order, price |-> price]

PORows(headers, refs, qtys, prices) ==
    {PORow(h, r, q, p) : h \in headers, r \in refs, q \in qtys, p \in prices}

\* df.sort_values(by=['Store ID', 'PO No.'])
IsSortedPO(df) ==
    \A i \in 1..(Len(df) - 1) :
        \/ df[i].store_id < df[i + 1].store_id
        \/ /\ df[i].store_id = df[i + 1].store_id
           /\ df[i].po_no <= df[i + 1].po_no

SeqsUpTo(S, n) == UNION {[1..k -> S] : k \in 0..n}

POTables(rows, n) == {df \in SeqsUpTo(rows, n) : IsSortedPO(df)}

Stock(ce_on_hand, ce_available, cw_on_hand, cw_available) ==
    [ce_on_hand |-> ce_on_hand, ce_available |-> ce_available,
     cw_on_hand |-> cw_on_hand, cw_available |-> cw_available]

PlainStock == Stock(6, 9, 6, 9)

StockRows ==
    {Stock(6, 5, 0, 5), Stock(0, 5, 6, 0), Stock(6, -1, -1, 5), PlainStock}

Variant(default_code, factor, stock) ==
    [default_code |-> default_code, x_studio_tt_om_int |-> factor,
     stock |-> stock]

Variants(refs, factors, stocks) ==
    {Variant(r, f, st) : r \in refs, f \in factors, st \in stocks}

\* Barcodes are text in Odoo, one per catalog row.
Barcodes == <<"B1", "B2", "B3", "B4", "B5", "B6">>

\* One catalog row per entry; Odoo ids and barcodes are those of the rows.
Catalog(vs) ==
    [i \in DOMAIN vs |->
        [id |-> i,
         barcode |-> Barcodes[i],
         default_code |-> vs[i].default_code,
         x_studio_tt_om_int |-> vs[i].x_studio_tt_om_int,
         x_studio_canada_east_on_hand |-> vs[i].stock.ce_on_hand,
         x_studio_ce_available |-> vs[i].stock.ce_available,
         x_studio_canada_west_on_hand |-> vs[i].stock.cw_on_hand,
         x_studio_cw_available |-> vs[i].stock.cw_available]]

Catalogs(variants, n) == {Catalog(vs) : vs \in SeqsUpTo(variants, n)}

\* One PO row against every catalog: the expansion rules.
ExpansionInputs ==
    /\ po_df \in POTables(PORows({Header(5, 101, 2, 3)}, Refs, 1..MaxQty, Prices), 1)
    /\ product_variants \in Catalogs(Variants(Refs, 1..MaxFactor, {PlainStock}), MaxVariants)
    /\ starting_so_ref = 391
    /\ supabase_client = FALSE

\* Several stores and PO numbers against a few catalogs: the aggregation.
AggregationCatalogs ==
    {Catalog(<<>>),
     Catalog(<<Variant("R1", 2, PlainStock)>>),
     Catalog(<<Variant("R1", 2, PlainStock), Variant("R2", 1, PlainStock),
               Variant("R2", 2, PlainStock)>>)}

AggregationInputs ==
    /\ po_df \in POTables(PORows(POHeaders, Refs, {1}, {12}), MaxPOLines)
    /\ product_variants \in AggregationCatalogs
    /\ starting_so_ref \in StartRefs
    /\ supabase_client = FALSE

\* Two warehouses against every stock situation: the allocation.  A catalog
\* of one variant, or of two (of one reference or of two).
AllocationVariants ==
    Variants({"R1"}, {2}, StockRows) \cup Variants({"R2"}, {2}, {PlainStock})

AllocationCatalogs ==
    {Catalog(<<v>>) : v \in AllocationVariants}
        \cup {Catalog(<<v, w>>) : v \in AllocationVariants, w \in AllocationVariants}

AllocationInputs ==
    /\ po_df \in POTables(PORows({Header(5, 101, 2, 3), Header(9, 104, 3, 3)},
                                 Refs, {2}, {12}), MaxAllocLines)
    /\ product_variants \in AllocationCatalogs
    /\ starting_so_ref = 391
    /\ supabase_client = TRUE

\* The worked scenarios: 2 cases of 12 at 24.00 (A), one case split over two
\* variants of 12 (B), demand 50 against 30 available (D), stores 5 and 9 (E).
ScenarioInputs ==
    /\ \/ /\ po_df = <<PORow(Header(5, 101, 2, 3), "R1", 2, 24),
                       PORow(Header(9, 104, 3, 3), "R2", 1, 12)>>
          /\ product_variants =
                 Catalog(<<Variant("R1", 12, PlainStock),
                           Variant("R2", 12, PlainStock),
                           Variant("R2", 12, PlainStock)>>)
       \/ /\ po_df = <<PORow(Header(5, 101, 2, 3), "R1", 10, 12),
                       PORow(Header(7, 103, 1, 2), "R1", 15, 12)>>
          /\ product_variants =
                 Catalog(<<Variant("R1", 2, Stock(40, 30, 40, 30))>>)
    /\ starting_so_ref = 391
    /\ supabase_client \in BOOLEAN

Init ==
    /\ \/ ExpansionInputs
       \/ AggregationInputs
       \/ AllocationInputs
       \/ ScenarioInputs
    /\ order_summaries = <<>>
    /\ line_details = <<>>
    /\ transform_errors = <<>>
    /\ historical_sales = <<>>
    /\ store_inventory = <<>>
    /\ page = "loaded"
    /\ runs = 0
    /\ pdf = <<>>
    /\ page_num = 1
    /\ line_num = 1
    /\ current_po = <<>>
    /\ data = <<>>
    /\ valid_data = <<>>
    /\ errors = <<>>
    /\ scan = "idle"
    /\ files = <<>>
    /\ file_num = 1
    /\ all_data = <<>>
    /\ all_errors = <<>>
    /\ returned_df = <<>>
    /\ batch = "idle"

(***************************************************************************)
(* Page "Transform & Review": the button "Fetch Attributes & Transform",   *)
(* offered while there is extracted data and the line table is empty.      *)
(***************************************************************************)
Transform ==
    /\ po_df # <<>>
    /\ line_details = <<>>
    /\ LET r == transform_data(po_df, product_variants, starting_so_ref)
       IN /\ order_summaries' = r.summaries
          /\ line_details' = r.lines
          /\ transform_errors' = r.errors
    /\ page' = "transformed"
    /\ UNCHANGED <<po_df, product_variants, starting_so_ref, historical_sales,
                   store_inventory, supabase_client, runs>>
    /\ UNCHANGED scan_vars
    /\ UNCHANGED batch_vars

(***************************************************************************)
(* optimize_allocations: merge of the external tables.                     *)
(***************************************************************************)
ExtRow(internal_reference, store_id, value) ==
    [internal_reference |-> internal_reference, store_id |-> store_id,
     value |-> value]

key_matches_ReferenceOnly(l, table) ==
    SelectSeq(table, LAMBDA r : r.internal_reference = l.internal_reference)

\* The rows of an external table with the (internal_reference, store_id) of l.
key_matches(l, table) ==
    SelectSeq(table, LAMBDA r : /\ r.internal_reference = l.internal_reference
                                /\ r.store_id = l.store_id)

\* line_details.drop(columns=[column])
drop(l, column) == [c \in DOMAIN l \ {column} |-> l[c]]

\* pd.merge gives the row the right table's column; a column of that name
\* already in the left table comes out twice, suffixed _x and _y.
with_column(l, column, value) ==
    IF column \in DOMAIN l
    THEN drop(l, column) @@ ((column \o "_x") :> l[column])
                         @@ ((column \o "_y") :> value)
    ELSE l @@ (column :> value)

left_merge_Inner(lines, table, column) ==
    Concat([i \in DOMAIN lines |->
        LET m == key_matches(lines[i], table)
            left == drop(lines[i], column)
        IN [k \in DOMAIN m |-> with_column(left, column, m[k].value)]])

\* One external table onto the lines: the existing column is dropped, then
\* pd.merge(..., on=['internal_reference', 'store_id'], how='left').
left_merge(lines, table, column) ==
    Concat([i \in DOMAIN lines |->
        LET m == key_matches(lines[i], table)
            left == drop(lines[i], column)
        IN IF m = <<>>
           THEN <<with_column(left, column, NaN)>>
           ELSE [k \in DOMAIN m |-> with_column(left, column, m[k].value)]])

merge_hist(lines, hist_merge) == left_merge(lines, hist_merge, "hist_avg_sales")

merge_inv(lines, inv_merge) == left_merge(lines, inv_merge, "store_on_hand")

\* .fillna(0) of both merged columns
fillna(lines) ==
    [i \in DOMAIN lines |->
        [lines[i] EXCEPT
            !.hist_avg_sales = IF @ = NaN THEN 0 ELSE @,
            !.store_on_hand = IF @ = NaN THEN 0 ELSE @]]

\* Lines 44-104: an empty external table leaves its column as it is.
merged(lines, hist, inv) ==
    LET a == IF hist # <<>> THEN merge_hist(lines, hist) ELSE lines
        b == IF inv # <<>> THEN merge_inv(a, inv) ELSE a
    IN fillna(b)

(***************************************************************************)
(* optimize_allocations: the checks per (warehouse, internal_reference).   *)
(***************************************************************************)
Part(text, num) == [text |-> text, num |-> num]

OnHandReason == <<Part("0/- On Hand", 0)>>
ShortageReason == <<Part("Shortage", 0)>>
NegativeAvailable(available_qty) == <<Part("Negative Available", available_qty)>>
\* f"{current_reason}, Available: {available_qty}"
WithAvailable(current_reason, available_qty) ==
    current_reason \o <<Part("Available", available_qty)>>

\* f"D: {int(total_demand)}, Ava: {int(available_qty)}"
Detail(demand, available_qty) == <<[d |-> demand, ava |-> available_qty]>>

\* wh_lines.groupby('internal_reference'): the group a line belongs to
group_of(lines, l) ==
    SelectSeq(lines, LAMBDA x : /\ x.warehouse = l.warehouse
                                /\ x.internal_reference = l.internal_reference)

total_demand_FirstLine(group) ==
    group[1].product_uom_qty

RECURSIVE total_demand(_)
\* group['product_uom_qty'].sum()
total_demand(group) ==
    IF group = <<>> THEN 0
    ELSE group[1].product_uom_qty + total_demand(Tail(group))

optimized_line_Truncating(lines, l) ==
    LET group == group_of(lines, l)
        demand == total_demand(group)
        available_qty == group[1].odoo_available
    IN IF group[1].odoo_on_hand <= 0
       THEN [l EXCEPT !.flagged = TRUE, !.flag_reason = OnHandReason,
                      !.product_uom_qty = 0]
       ELSE IF demand > available_qty
       THEN [l EXCEPT !.flag_reason = ShortageReason,
                      !.product_uom_qty = IF available_qty > 0 THEN 1 ELSE 0]
       ELSE l

optimized_line_FlaggingShortage(lines, l) ==
    LET group == group_of(lines, l)
        demand == total_demand(group)
        available_qty == group[1].odoo_available
        current_reason == group[1].flag_reason
    IN IF group[1].odoo_on_hand <= 0
       THEN [l EXCEPT !.flagged = TRUE, !.flag_reason = OnHandReason]
       ELSE IF demand > available_qty
       THEN IF available_qty <= 0
            THEN [l EXCEPT !.flagged = TRUE,
                           !.flag_reason =
                               IF current_reason # None
                               THEN WithAvailable(current_reason, available_qty)
                               ELSE NegativeAvailable(available_qty)]
            ELSE [l EXCEPT !.flagged = TRUE,
                           !.flag_reason = ShortageReason,
                           !.shortage_details = Detail(demand, available_qty)]
       ELSE l

optimized_line_Overwriting(lines, l) ==
    LET group == group_of(lines, l)
        demand == total_demand(group)
        available_qty == group[1].odoo_available
    IN IF group[1].odoo_on_hand <= 0
       THEN [l EXCEPT !.flagged = TRUE, !.flag_reason = OnHandReason]
       ELSE IF demand > available_qty
       THEN IF available_qty <= 0
            THEN [l EXCEPT !.flagged = TRUE,
                           !.flag_reason = NegativeAvailable(available_qty)]
            ELSE [l EXCEPT !.flag_reason = ShortageReason,
                           !.shortage_details = Detail(demand, available_qty)]
       ELSE l

\* What the loop over the groups leaves in the row l of the merged table.
optimized_line(lines, l) ==
    LET group == group_of(lines, l)
        demand == total_demand(group)
        available_qty == group[1].odoo_available
        on_hand_qty == group[1].odoo_on_hand
        current_reason == group[1].flag_reason
    IN IF on_hand_qty <= 0
       THEN [l EXCEPT !.flagged = TRUE, !.flag_reason = OnHandReason]
       ELSE IF demand > available_qty
       THEN IF available_qty <= 0
            THEN [l EXCEPT !.flagged = TRUE,
                           !.flag_reason =
                               IF current_reason # None
                               THEN WithAvailable(current_reason, available_qty)
                               ELSE NegativeAvailable(available_qty)]
            ELSE [l EXCEPT !.flag_reason = ShortageReason,
                           !.shortage_details = Detail(demand, available_qty)]
       ELSE l

\* InventoryOptimizer.optimize_allocations: the returned line table
optimize_allocations(lines, hist, inv) ==
    IF lines = <<>> THEN lines
    ELSE LET m == merged(lines, hist, inv)
         IN [i \in DOMAIN m |-> optimized_line(m, m[i])]

(***************************************************************************)
(* Page "Inventory Optimization": the button "Run Optimization Engine".    *)
(* Without a Supabase client both tables are empty; with one, they are     *)
(* whatever the provider returns at that moment.                           *)
(***************************************************************************)
\* An empty table, one row, and the same key twice.
HistTables == {<<>>, <<ExtRow("R1", 5, 3)>>,
               <<ExtRow("R1", 5, 3), ExtRow("R1", 5, 3)>>}
InvTables == {<<>>, <<ExtRow("R1", 5, 4)>>, <<ExtRow("R1", 9, 7)>>}

Optimize ==
    /\ page \in {"transformed", "optimized"}
    /\ line_details # <<>>
    /\ runs < MaxRuns
    /\ \E hist \in (IF supabase_client THEN HistTables ELSE {<<>>}),
          inv \in (IF supabase_client THEN InvTables ELSE {<<>>}) :
          /\ line_details' = optimize_allocations(line_details, hist, inv)
          /\ historical_sales' = hist
          /\ store_inventory' = inv
    /\ page' = "optimized"
    /\ runs' = runs + 1
    /\ UNCHANGED <<po_df, product_variants, starting_so_ref, order_summaries,
                   transform_errors, supabase_client>>
    /\ UNCHANGED scan_vars
    /\ UNCHANGED batch_vars

Next ==
    \/ Transform
    \/ Optimize

Spec == Init /\ [][Next]_vars

(***************************************************************************)
(* Page "Inventory Optimization": the review table of a warehouse tab      *)
(* (render_warehouse_tab).  The editor lets the user change price_unit,    *)
(* product_uom_qty and flagged; "Save Changes" writes the edited values    *)
(* back, "Delete Flagged Items" writes them back and drops the flagged     *)
(* rows of the tab.  A save is explored one edited row at a time.          *)
(***************************************************************************)
EditQtys == {0, 1}

\* line_details.loc[filtered_df.index, col] = edited_df[col].values
saved(lines, i, qty, flag) ==
    [lines EXCEPT ![i] = [@ EXCEPT !.product_uom_qty = qty, !.flagged = flag]]

SaveChanges ==
    /\ page \in {"transformed", "optimized"}
    /\ \E i \in DOMAIN line_details :
          \E qty \in EditQtys \cup {line_details[i].product_uom_qty},
             flag \in BOOLEAN :
              line_details' = saved(line_details, i, qty, flag)
    /\ UNCHANGED <<po_df, product_variants, starting_so_ref, order_summaries,
                   transform_errors, historical_sales, store_inventory,
                   supabase_client, page, runs>>
    /\ UNCHANGED scan_vars
    /\ UNCHANGED batch_vars

\* line_details.drop(edited_df[edited_df['flagged']].index)
without_flagged(lines, warehouse_code) ==
    SelectSeq(lines, LAMBDA l : ~(l.warehouse = warehouse_code /\ l.flagged))

DeleteFlagged ==
    /\ page \in {"transformed", "optimized"}
    /\ \E warehouse_code \in {"CE", "CW"} :
          /\ \E i \in DOMAIN line_details :
                /\ line_details[i].warehouse = warehouse_code
                /\ line_details[i].flagged
          /\ line_details' = without_flagged(line_details, warehouse_code)
    /\ UNCHANGED <<po_df, product_variants, starting_so_ref, order_summaries,
                   transform_errors, historical_sales, store_inventory,
                   supabase_client, page, runs>>
    /\ UNCHANGED scan_vars
    /\ UNCHANGED batch_vars

\* Orders for one reference at stores of both warehouses, against each
\* stock situation; no Supabase client, so both external tables are empty.
ReviewInputs ==
    /\ po_df \in POTables(PORows({Header(5, 101, 2, 3), Header(7, 103, 1, 2),
                                  Header(9, 104, 3, 3)}, {"R1"}, {2}, {12}),
                           MaxAllocLines) \ {<<>>}
    /\ product_variants \in
           {Catalog(<<Variant("R1", 2, st)>>) :
               st \in StockRows \cup {Stock(6, 3, 0, 5)}}
    /\ starting_so_ref = 391
    /\ supabase_client = FALSE

ReviewInit ==
    /\ ReviewInputs
    /\ order_summaries = <<>>
    /\ line_details = <<>>
    /\ transform_errors = <<>>
    /\ historical_sales = <<>>
    /\ store_inventory = <<>>
    /\ page = "loaded"
    /\ runs = 0
    /\ pdf = <<>>
    /\ page_num = 1
    /\ line_num = 1
    /\ current_po = <<>>
    /\ data = <<>>
    /\ valid_data = <<>>
    /\ errors = <<>>
    /\ scan = "idle"
    /\ files = <<>>
    /\ file_num = 1
    /\ all_data = <<>>
    /\ all_errors = <<>>
    /\ returned_df = <<>>
    /\ batch = "idle"

ReviewNext ==
    \/ Transform
    \/ Optimize
    \/ SaveChanges
    \/ DeleteFlagged

ReviewSpec == ReviewInit /\ [][ReviewNext]_vars

(***************************************************************************)
(* Vocabulary of the properties, read off the state alone.                 *)
(***************************************************************************)
\* The catalog variants carrying a reference code, in catalog order.
CatalogMatches(ref) ==
    SelectSeq(product_variants, LAMBDA p : p.default_code = ref)

\* The expanded lines that came from PO row i, in table order.
LinesOf(i) == SelectSeq(line_details, LAMBDA l : l.po_row = i)

\* The diagnostics recorded for PO row i.
ErrorsOf(i) == SelectSeq(transform_errors, LAMBDA e : e.po_row = i)

RECURSIVE SumQty(_)
SumQty(ls) ==
    IF ls = <<>> THEN 0 ELSE ls[1].product_uom_qty + SumQty(Tail(ls))

RECURSIVE ParseInt(_)
\* The number written by a text of decimal digits.
ParseInt(ds) ==
    IF ds = <<>> THEN 0
    ELSE 10 * ParseInt(SubSeq(ds, 1, Len(ds) - 1)) + (ds[Len(ds)] - 48)

\* The number after the four letters of an order-reference code.
NumericSuffix(code) == ParseInt(SubSeq(code, 5, Len(code)))

\* The distinct destinations of the line table, ascending.
Destinations == Sorted({line_details[i].store_id : i \in DOMAIN line_details})

HeadersOf(store_id) ==
    SelectSeq(order_summaries, LAMBDA h : h.store_id = store_id)

C3_ReferenceMonotonicity ==
    page = "transformed" =>
        \A j \in DOMAIN Destinations :
            /\ \A k \in DOMAIN line_details :
                  line_details[k].store_id = Destinations[j] =>
                      NumericSuffix(line_details[k].so_reference)
                          = starting_so_ref + (j - 1)
            /\ \A k \in DOMAIN order_summaries :
                  order_summaries[k].store_id = Destinations[j] =>
                      NumericSuffix(order_summaries[k].so_reference)
                          = starting_so_ref + (j - 1)

\* Stores 5 and 9 from offset 391: the codes end in 391 and 392.
C3_Witness ==
    /\ page = "transformed"
    /\ starting_so_ref = 391
    /\ Destinations = <<5, 9>>
    /\ \E a, b \in DOMAIN line_details :
          /\ line_details[a].store_id = 5
          /\ NumericSuffix(line_details[a].so_reference) = 391
          /\ line_details[b].store_id = 9
          /\ NumericSuffix(line_details[b].so_reference) = 392

(***************************************************************************)
(* C4  One header per destination.  After transform_data every distinct    *)
(* destination of the expanded lines has exactly one header and every      *)
(* header is of such a destination, no two headers carry the same order    *)
(* reference, and every line carries the order reference of the header of  *)
(* its own destination, so two lines share a code exactly when they share  *)
(* a destination.                                                          *)
(***************************************************************************)
C4_OneHeaderPerDestination ==
    page = "transformed" =>
        /\ \A j \in DOMAIN Destinations : Len(HeadersOf(Destinations[j])) = 1
        /\ \A k \in DOMAIN order_summaries :
              order_summaries[k].store_id \in Range(Destinations)
        /\ \A a, b \in DOMAIN order_summaries :
              a # b => order_summaries[a].so_reference # order_summaries[b].so_reference
        /\ \A k \in DOMAIN line_details :
              /\ line_details[k].so_reference # None
              /\ line_details[k].so_reference
                     = HeadersOf(line_details[k].store_id)[1].so_reference
        /\ \A a, b \in DOMAIN line_details :
              (line_details[a].so_reference = line_details[b].so_reference)
                  <=> (line_details[a].store_id = line_details[b].store_id)

\* Three destinations, one of them with two lines.
C4_Witness ==
    /\ page = "transformed"
    /\ Len(Destinations) = 3
    /\ Len(order_summaries) = 3
    /\ \E a, b \in DOMAIN line_details :
          a # b /\ line_details[a].store_id = line_details[b].store_id

(***************************************************************************)
(* C5  Multi-variant price basis, as claimed.  After transform_data a line *)
(* expanded from a reference with more than one catalog variant has unit   *)
(* price = PO line price / its own variant's factor, so two lines of one   *)
(* PO row whose variants differ in factor differ in unit price.            *)
(***************************************************************************)
OwnFactor(l) ==
    (CHOOSE p \in Range(product_variants) : p.id = l.product_id).x_studio_tt_om_int

C5_OwnFactorPrice ==
    page = "transformed" =>
        /\ \A k \in DOMAIN line_details :
              LET l == line_details[k]
              IN Len(CatalogMatches(l.internal_reference)) > 1 =>
                    FracEq(l.price_unit, Frac(l.po_unit_price, OwnFactor(l)))
        /\ \A a, b \in DOMAIN line_details :
              LET l == line_details[a]
                  m == line_details[b]
              IN (l.po_row = m.po_row /\ OwnFactor(l) # OwnFactor(m)) =>
                    ~FracEq(l.price_unit, m.price_unit)

(***************************************************************************)
(* C6  Single-variant expansion.  After transform_data a PO row whose      *)
(* reference matches exactly one variant, of factor f, has exactly one     *)
(* line, with unit count = quantity x f, unit price = price / f and total  *)
(* = unit count x unit price; 2 cases of 12 at 24 give 24 units at 2 each, *)
(* total 48.                                                               *)
(***************************************************************************)
SingleVariantRule(i, example_unit_price, example_total) ==
    LET ms == CatalogMatches(po_df[i].internal_reference)
        f == ms[1].x_studio_tt_om_int
        qty == po_df[i].num_of_order
        price == po_df[i].price
        ls == LinesOf(i)
    IN Len(ms) = 1 =>
          /\ Len(ls) = 1
          /\ ls[1].product_uom_qty = qty * f
          /\ FracEq(ls[1].price_unit, Frac(price, f))
          /\ FracEq(ls[1].total_price,
                    Frac(ls[1].product_uom_qty * ls[1].price_unit.num,
                         ls[1].price_unit.den))
          /\ (f = 12 /\ qty = 2 /\ price = 24) =>
                /\ ls[1].product_uom_qty = 24
                /\ FracEq(ls[1].price_unit, Frac(example_unit_price, 1))
                /\ FracEq(ls[1].total_price, Frac(example_total, 1))

UnmatchedRule ==
    /\ \A i \in DOMAIN po_df :
          LET ms == CatalogMatches(po_df[i].internal_reference)
          IN IF ms = <<>>
             THEN /\ LinesOf(i) = <<>>
                  /\ Len(ErrorsOf(i)) = 1
                  /\ ErrorsOf(i)[1].internal_reference = po_df[i].internal_reference
             ELSE /\ Len(LinesOf(i)) = Len(ms)
                  /\ ErrorsOf(i) = <<>>
    /\ \A k \in DOMAIN transform_errors : transform_errors[k].po_row \in DOMAIN po_df

C7_UnmatchedReference ==
    (page = "transformed" /\ product_variants # <<>>) => UnmatchedRule

\* C7 as claimed: for every catalog, the empty one included.
C7_AsClaimed ==
    page = "transformed" => UnmatchedRule

\* A table with an unmatched row next to a matched one.
C7_Witness ==
    /\ page = "transformed"
    /\ product_variants # <<>>
    /\ \E i, j \in DOMAIN po_df :
          /\ CatalogMatches(po_df[i].internal_reference) = <<>>
          /\ Len(ErrorsOf(i)) = 1
          /\ CatalogMatches(po_df[j].internal_reference) # <<>>
          /\ LinesOf(j) # <<>>

(***************************************************************************)
(* Vocabulary of the allocator claims.                                     *)
(***************************************************************************)
\* b is a with, at most, the five fields of the allocator rewritten.
SameButAllocFields(a, b) ==
    [b EXCEPT !.flagged = a.flagged,
              !.flag_reason = a.flag_reason,
              !.shortage_details = a.shortage_details,
              !.hist_avg_sales = a.hist_avg_sales,
              !.store_on_hand = a.store_on_hand] = a

\* The lines of table t in the (warehouse, reference) group of line l.
GroupIn(t, l) ==
    SelectSeq(t, LAMBDA x : /\ x.warehouse = l.warehouse
                            /\ x.internal_reference = l.internal_reference)

\* The (reference, store) key of line l occurs in the external table.
KeyIn(l, table) ==
    \E r \in DOMAIN table :
        /\ table[r].internal_reference = l.internal_reference
        /\ table[r].store_id = l.store_id

C8_OnHandGate ==
    page = "optimized" =>
        \A k \in DOMAIN line_details :
            line_details[k].odoo_on_hand <= 0 =>
                /\ line_details[k].flagged
                /\ line_details[k].flag_reason = OnHandReason
                /\ line_details[k].shortage_details = None

(***************************************************************************)
(* C9  Shortage annotation.  Across every run of optimize_allocations,     *)
(* in every (warehouse, reference) group of the returned table whose       *)
(* on-hand is > 0 and whose total demand (the sum of the group's unit      *)
(* counts) exceeds an available quantity > 0, every line has the shortage  *)
(* reason and the detail of that demand and that available quantity, and   *)
(* has the unit count of the line passed in; when the merges kept the      *)
(* table's length, the demand is that of the group passed in.  The group's *)
(* on-hand and available are those of its first line.                      *)
(***************************************************************************)
C9_ShortageAnnotation ==
    [][runs' = runs + 1 =>
          \A k \in DOMAIN line_details' :
              LET l == line_details'[k]
                  group == GroupIn(line_details', l)
                  demand == SumQty(group)
                  available == group[1].odoo_available
              IN (group[1].odoo_on_hand > 0 /\ available > 0 /\ demand > available) =>
                    /\ l.flag_reason = ShortageReason
                    /\ l.shortage_details = Detail(demand, available)
                    /\ \E j \in DOMAIN line_details :
                          /\ SameButAllocFields(line_details[j], l)
                          /\ line_details[j].product_uom_qty = l.product_uom_qty
                    /\ Len(line_details') = Len(line_details) =>
                          demand = SumQty(GroupIn(line_details, line_details[k]))]_vars

\* Demand 50 (20 + 30) against 30 available: both lines annotated, units kept.
C9_Witness ==
    /\ page = "optimized"
    /\ Len(line_details) = 2
    /\ \A k \in DOMAIN line_details :
          /\ line_details[k].flag_reason = ShortageReason
          /\ line_details[k].shortage_details = Detail(50, 30)
          /\ line_details[k].odoo_available = 30
    /\ line_details[1].product_uom_qty = 20
    /\ line_details[2].product_uom_qty = 30

(***************************************************************************)
(* C10  Merge defaulting, as claimed.  After a run of                      *)
(* optimize_allocations, a line whose (reference, store) key occurs in     *)
(* neither external table of that run has hist_avg_sales = 0 and           *)
(* store_on_hand = 0.                                                      *)
(***************************************************************************)
C10_MergeDefaulting ==
    page = "optimized" =>
        \A k \in DOMAIN line_details :
            (/\ ~KeyIn(line_details[k], historical_sales)
             /\ ~KeyIn(line_details[k], store_inventory)) =>
                /\ line_details[k].hist_avg_sales = 0
                /\ line_details[k].store_on_hand = 0

(***************************************************************************)
(* C11  Merge by exact key over pre-initialised columns.  Across a run of  *)
(* optimize_allocations on a line table whose hist_avg_sales and           *)
(* store_on_hand are all 0, every returned line has hist_avg_sales = the   *)
(* historical table's value for its (reference, store) key, or 0 when the  *)
(* key is not there, and store_on_hand = the inventory table's value for   *)
(* its key, or 0; and it has the columns of the table passed in, each      *)
(* once, with no suffixed copy.                                            *)
(***************************************************************************)
\* The value an external table holds for the key of line l, 0 without one.
ValueFor(l, table) ==
    IF KeyIn(l, table)
    THEN table[CHOOSE r \in DOMAIN table :
                   /\ table[r].internal_reference = l.internal_reference
                   /\ table[r].store_id = l.store_id].value
    ELSE 0

C11_MergeByKey ==
    [][(/\ runs' = runs + 1
        /\ \A j \in DOMAIN line_details :
              /\ line_details[j].hist_avg_sales = 0
              /\ line_details[j].store_on_hand = 0) =>
          \A k \in DOMAIN line_details' :
              LET l == line_details'[k]
              IN /\ l.hist_avg_sales = ValueFor(l, historical_sales')
                 /\ l.store_on_hand = ValueFor(l, store_inventory')
                 /\ DOMAIN l = DOMAIN line_details[1]
                 /\ {"hist_avg_sales_x", "hist_avg_sales_y",
                     "store_on_hand_x", "store_on_hand_y"} \cap DOMAIN l = {}]_vars

\* Both tables non-empty: a line with its key in the historical table only,
\* and a line with its key in the inventory table only.
C11_Witness ==
    /\ runs = 1
    /\ historical_sales # <<>>
    /\ store_inventory # <<>>
    /\ \E a, b \in DOMAIN line_details :
          /\ KeyIn(line_details[a], historical_sales)
          /\ ~KeyIn(line_details[a], store_inventory)
          /\ line_details[a].hist_avg_sales = 3
          /\ line_details[a].store_on_hand = 0
          /\ ~KeyIn(line_details[b], historical_sales)
          /\ KeyIn(line_details[b], store_inventory)
          /\ line_details[b].hist_avg_sales = 0
          /\ line_details[b].store_on_hand = 7

(***************************************************************************)
(* C16  Fatal conditions.  transform_data called with an empty PO table,   *)
(* whatever the catalog, or with a non-empty PO table and an empty         *)
(* catalog, returns an empty header table, an empty line table and a       *)
(* non-empty diagnostics list, so no order reference; and that is what the *)
(* Transform page is left with over an empty catalog.                      *)
(***************************************************************************)
DegradedToEmpty(r) ==
    /\ r.summaries = <<>>
    /\ r.lines = <<>>
    /\ r.errors # <<>>

C16_FatalConditions ==
    /\ DegradedToEmpty(transform_data(<<>>, product_variants, starting_so_ref))
    /\ po_df # <<>> =>
          DegradedToEmpty(transform_data(po_df, <<>>, starting_so_ref))
    /\ (page = "transformed" /\ product_variants = <<>>) =>
          /\ order_summaries = <<>>
          /\ line_details = <<>>
          /\ transform_errors # <<>>

\* A PO table transformed over an empty catalog.
C16_Witness ==
    /\ page = "transformed"
    /\ po_df # <<>>
    /\ product_variants = <<>>
    /\ line_details = <<>>
    /\ Len(transform_errors) = 1

(***************************************************************************)
(* C17  Idempotent rerun, as claimed.  A run of optimize_allocations on    *)
(* the line table an earlier run produced, with the same external tables   *)
(* as that run, returns that table: the same lines with the same unit      *)
(* count, flagged marker, flag reason, shortage detail and merged fields.  *)
(***************************************************************************)
C17_IdempotentRerun ==
    [][(/\ runs >= 1
        /\ runs' = runs + 1
        /\ historical_sales' = historical_sales
        /\ store_inventory' = store_inventory) =>
          line_details' = line_details]_vars

(***************************************************************************)
(* C18  Header dates, as claimed.  After transform_data, in each order     *)
(* header order_date is the earliest order date and delivery_date the      *)
(* earliest delivery date among the expanded lines of its destination.     *)
(***************************************************************************)
Earliest(dates) == CHOOSE d \in dates : \A e \in dates : d <= e

C18_EarliestDates ==
    page = "transformed" =>
        \A k \in DOMAIN order_summaries :
            LET h == order_summaries[k]
                mine == {i \in DOMAIN line_details :
                            line_details[i].store_id = h.store_id}
            IN /\ h.order_date
                      = Earliest({line_details[i].order_date : i \in mine})
               /\ h.delivery_date
                      = Earliest({line_details[i].delivery_date : i \in mine})

(***************************************************************************)
(* C19  Order-reference code format, as claimed.  After transform_data all *)
(* codes begin with the same prefix and have the same length, and of two   *)
(* codes the one with the smaller number S + i is the smaller text, for    *)
(* every S, a run that crosses 999 to 1000 included.                       *)
(***************************************************************************)
C19_CodeFormat ==
    page = "transformed" =>
        \A a, b \in DOMAIN order_summaries :
            LET x == order_summaries[a].so_reference
                y == order_summaries[b].so_reference
            IN /\ SubSeq(x, 1, 4) = SubSeq(y, 1, 4)
               /\ Len(x) = Len(y)
               /\ NumericSuffix(x) < NumericSuffix(y) => LexLess(x, y)

(***************************************************************************)
(* The Odoo export (frontend/app.py, to_excel): the two sheets written     *)
(* from the order summaries and the line details.                          *)
(***************************************************************************)
\* valid_lines = lines[~lines['flagged']].copy()
valid_lines(lines) == SelectSeq(lines, LAMBDA l : ~l.flagged)

\* The "Sales Orders" sheet.
headers_df(summaries) ==
    [k \in DOMAIN summaries |->
        [order_reference |-> summaries[k].so_reference,
         order_date |-> summaries[k].order_date,
         delivery_date |-> summaries[k].delivery_date,
         client_order_ref |-> summaries[k].po_numbers]]

\* The "Sales Order Lines" sheet.
lines_df(lines) ==
    [k \in DOMAIN valid_lines(lines) |->
        [order_reference |-> valid_lines(lines)[k].so_reference,
         product |-> valid_lines(lines)[k].internal_reference,
         quantity |-> valid_lines(lines)[k].product_uom_qty,
         unit_price |-> valid_lines(lines)[k].price_unit,
         lock_unit_price |-> TRUE]]

to_excel(summaries, lines) ==
    [sales_orders |-> headers_df(summaries),
     sales_order_lines |-> lines_df(lines)]

(***************************************************************************)
(* C20  Product identifier, as claimed.  In the exported line sheet the    *)
(* Product of a line is the variant's barcode when the line's reference    *)
(* matches more than one catalog variant and the reference code otherwise, *)
(* so that the lines of two different variants of one PO row carry         *)
(* different Product values.                                               *)
(***************************************************************************)
C20_ProductIdentifier ==
    LET valid == valid_lines(line_details)
        sheet == to_excel(order_summaries, line_details).sales_order_lines
    IN /\ \A k \in DOMAIN sheet :
              sheet[k].product
                  = IF Len(CatalogMatches(valid[k].internal_reference)) > 1
                    THEN valid[k].barcode
                    ELSE valid[k].internal_reference
       /\ \A a, b \in DOMAIN sheet :
              (/\ valid[a].po_row = valid[b].po_row
               /\ valid[a].product_id # valid[b].product_id)
                  => sheet[a].product # sheet[b].product

RECURSIVE SplitList(_, _)
\* The entries of a comma-joined list; cur is the entry being read.
SplitList(text, cur) ==
    IF text = <<>> THEN <<cur>>
    ELSE IF Len(text) >= 2 /\ text[1] = 44 /\ text[2] = 32
    THEN <<cur>> \o SplitList(SubSeq(text, 3, Len(text)), <<>>)
    ELSE SplitList(Tail(text), Append(cur, text[1]))

\* The order numbers on the expanded lines of a destination.
OrderNumbersOf(store_id) ==
    {line_details[i].po_number :
        i \in {j \in DOMAIN line_details : line_details[j].store_id = store_id}}

LinesAt(store_id) == SelectSeq(line_details, LAMBDA l : l.store_id = store_id)

RECURSIVE TotalPrice(_)
\* The sum of total_price over lines, as an exact fraction.
TotalPrice(ls) ==
    IF ls = <<>> THEN Frac(0, 1)
    ELSE LET rest == TotalPrice(Tail(ls))
         IN Frac(ls[1].total_price.num * rest.den
                     + rest.num * ls[1].total_price.den,
                 ls[1].total_price.den * rest.den)

RECURSIVE TotalLines(_)
\* The sum of total_lines over headers.
TotalLines(hs) ==
    IF hs = <<>> THEN 0 ELSE hs[1].total_lines + TotalLines(Tail(hs))

(***************************************************************************)
(* C22  Header totals.  After transform_data, total_lines of each header   *)
(* is the number of lines of its destination and total_value is the sum of *)
(* their total_price; the total_lines of all headers add up to the number  *)
(* of lines returned.                                                      *)
(***************************************************************************)
C22_HeaderTotals ==
    page = "transformed" =>
        /\ \A k \in DOMAIN order_summaries :
              LET h == order_summaries[k]
              IN /\ h.total_lines = Len(LinesAt(h.store_id))
                 /\ FracEq(h.total_value, TotalPrice(LinesAt(h.store_id)))
        /\ TotalLines(order_summaries) = Len(line_details)

\* Two destinations, one of them with lines of different total_price.
C22_Witness ==
    /\ page = "transformed"
    /\ Len(order_summaries) >= 2
    /\ \E k \in DOMAIN order_summaries :
          \E a, b \in DOMAIN LinesAt(order_summaries[k].store_id) :
              ~FracEq(LinesAt(order_summaries[k].store_id)[a].total_price,
                      LinesAt(order_summaries[k].store_id)[b].total_price)

C26_PositiveUnitCounts ==
    (/\ page = "transformed"
     /\ \A i \in DOMAIN po_df : po_df[i].num_of_order >= 1
     /\ \A p \in DOMAIN product_variants :
           product_variants[p].x_studio_tt_om_int >= 1) =>
        \A k \in DOMAIN line_details : line_details[k].product_uom_qty >= 1

\* An external table holds each (reference, store) key at most once.
Keyed(table) ==
    \A a, b \in DOMAIN table :
        (/\ table[a].internal_reference = table[b].internal_reference
         /\ table[a].store_id = table[b].store_id) => a = b

\* One returned line per line passed in, in place, and the demand of every
\* group as it was.
LinesPreserved ==
    /\ Len(line_details') = Len(line_details)
    /\ \A k \in DOMAIN line_details :
          /\ SameButAllocFields(line_details[k], line_details'[k])
          /\ SumQty(GroupIn(line_details', line_details'[k]))
                 = SumQty(GroupIn(line_details, line_details[k]))

(***************************************************************************)
(* C27  Line preservation by the allocator.  Across every run of           *)
(* optimize_allocations whose external tables hold each (reference, store) *)
(* key at most once, there is exactly one returned line per line passed    *)
(* in, in the same place, and the total demand of every (warehouse,        *)
(* reference) group is the sum of the unit counts passed in.               *)
(***************************************************************************)
C27_LinePreservation ==
    [][(/\ runs' = runs + 1
        /\ Keyed(historical_sales')
        /\ Keyed(store_inventory')) => LinesPreserved]_vars

\* As claimed: the same for every pair of external tables, those that hold
\* a key more than once included.
C27_AsClaimed ==
    [][runs' = runs + 1 => LinesPreserved]_vars

\* A run with both tables non-empty and keyed, over two lines of which one
\* has its key in the historical table and the other has not.
C27_Witness ==
    /\ page = "optimized"
    /\ historical_sales # <<>> /\ Keyed(historical_sales)
    /\ store_inventory # <<>> /\ Keyed(store_inventory)
    /\ Len(line_details) >= 2
    /\ \E a, b \in DOMAIN line_details :
          /\ KeyIn(line_details[a], historical_sales)
          /\ ~KeyIn(line_details[b], historical_sales)

(***************************************************************************)
(* C28  No stale annotations, as claimed.  Whatever runs and saved edits   *)
(* came before, a line that comes out of a run of optimize_allocations     *)
(* with the shortage reason or with a shortage detail is in a (warehouse,  *)
(* reference) group whose total demand at that run exceeds its available   *)
(* quantity.                                                               *)
(***************************************************************************)
C28_NoStaleAnnotations ==
    [][runs' = runs + 1 =>
          \A k \in DOMAIN line_details' :
              LET l == line_details'[k]
                  group == GroupIn(line_details', l)
              IN (l.flag_reason = ShortageReason \/ l.shortage_details # None) =>
                    SumQty(group) > group[1].odoo_available]_vars

\* The on-hand, the available quantity and the demand of the group of the
\* line at place k of the table passed in.
GroupOnHand(k) == GroupIn(line_details, line_details[k])[1].odoo_on_hand
GroupAvailable(k) == GroupIn(line_details, line_details[k])[1].odoo_available
GroupDemand(k) == SumQty(GroupIn(line_details, line_details[k]))

\* In the shortage case a run writes only flag_reason and shortage_details
\* of the line at place k, and a line that was not flagged is on the
\* exported line sheet.
AnnotationOnly(k) ==
    LET l == line_details[k]
        after == line_details'[k]
        sheet == to_excel(order_summaries', line_details').sales_order_lines
    IN (/\ GroupOnHand(k) > 0
        /\ GroupAvailable(k) > 0
        /\ GroupDemand(k) > GroupAvailable(k)) =>
          /\ after.flagged = l.flagged
          /\ [after EXCEPT !.flag_reason = l.flag_reason,
                           !.shortage_details = l.shortage_details] = l
          /\ ~l.flagged =>
                \E j \in DOMAIN sheet :
                    /\ sheet[j].order_reference = after.so_reference
                    /\ sheet[j].product = after.internal_reference
                    /\ sheet[j].quantity = after.product_uom_qty

(***************************************************************************)
(* C29  Shortage is annotation-only.  Across every run of                  *)
(* optimize_allocations on the review table: in a group with on-hand > 0   *)
(* whose demand exceeds an available quantity > 0, every line keeps its    *)
(* flagged marker and everything else but flag_reason and                  *)
(* shortage_details, and a line that was not flagged is on the exported    *)
(* line sheet; in a group with on-hand <= 0, or whose demand exceeds an    *)
(* available quantity <= 0, every line comes out flagged.                  *)
(***************************************************************************)
C29_ShortageAnnotationOnly ==
    [][runs' = runs + 1 =>
          /\ Len(line_details') = Len(line_details)
          /\ \A k \in DOMAIN line_details :
                /\ AnnotationOnly(k)
                /\ (\/ GroupOnHand(k) <= 0
                    \/ /\ GroupAvailable(k) <= 0
                       /\ GroupDemand(k) > GroupAvailable(k)) =>
                      line_details'[k].flagged]_vars

\* As claimed: every line of a group with on-hand <= 0 or available <= 0
\* comes out flagged, whatever the demand.
C29_AsClaimed ==
    [][runs' = runs + 1 =>
          /\ Len(line_details') = Len(line_details)
          /\ \A k \in DOMAIN line_details :
                /\ AnnotationOnly(k)
                /\ (GroupOnHand(k) <= 0 \/ GroupAvailable(k) <= 0) =>
                      line_details'[k].flagged]_vars

\* After a run: a shortage line that is not flagged and is on the exported
\* line sheet, next to a flagged line of a group without stock on hand.
C29_Witness ==
    /\ page = "optimized"
    /\ \E a, b \in DOMAIN line_details :
          /\ line_details[a].flag_reason = ShortageReason
          /\ ~line_details[a].flagged
          /\ line_details[a].product_uom_qty > line_details[a].odoo_available
          /\ \E j \in DOMAIN lines_df(line_details) :
                lines_df(line_details)[j].order_reference
                    = line_details[a].so_reference
          /\ line_details[b].flag_reason = OnHandReason
          /\ line_details[b].flagged
          /\ \A j \in DOMAIN lines_df(line_details) :
                lines_df(line_details)[j].order_reference
                    # line_details[b].so_reference

(***************************************************************************)
(* C30  Export consistency, as claimed.  After any transform, runs, saved  *)
(* edits and deletions, every header on the exported headers sheet has a   *)
(* line with its order-reference code on the exported line sheet, and the  *)
(* code of every exported line is on the headers sheet.                    *)
(***************************************************************************)
C30_ExportConsistency ==
    LET book == to_excel(order_summaries, line_details)
    IN /\ \A h \in DOMAIN book.sales_orders :
              \E j \in DOMAIN book.sales_order_lines :
                  book.sales_order_lines[j].order_reference
                      = book.sales_orders[h].order_reference
       /\ \A j \in DOMAIN book.sales_order_lines :
              \E h \in DOMAIN book.sales_orders :
                  book.sales_orders[h].order_reference
                      = book.sales_order_lines[j].order_reference

(***************************************************************************)
(* PDFExtractor (backend/pdf_extractor.py).  A page is the sequence of its *)
(* text lines and a page without text is the empty sequence; a line is the *)
(* sequence of its whitespace-separated tokens and a blank line is the     *)
(* empty sequence.  A token is its text, as character codes; a token that  *)
(* one of the four header patterns matches is given by the pattern's name  *)
(* and the groups it captures.  Description, size and pack of an item are  *)
(* left out: nothing else reads them.                                      *)
(***************************************************************************)
MaxPageLines == 3
MaxRecords == 2

Word(text) == [kind |-> "text", text |-> text, name |-> <<>>]
HeaderToken(kind, name, text) == [kind |-> kind, text |-> text, name |-> name]

IsDigit(c) == c \in 48..57
IsWordChar(c) == IsDigit(c) \/ c \in 65..90 \/ c \in 97..122 \/ c = 95
IsDigits(t) == t # <<>> /\ \A i \in DOMAIN t : IsDigit(t[i])

RECURSIVE lstrip(_)
lstrip(t) == IF t # <<>> /\ t[1] = 32 THEN lstrip(Tail(t)) ELSE t

RECURSIVE rstrip(_)
rstrip(t) ==
    IF t # <<>> /\ t[Len(t)] = 32 THEN rstrip(SubSeq(t, 1, Len(t) - 1)) ELSE t

\* str.strip()
strip(t) == rstrip(lstrip(t))

\* re.match(r'^\d{6}$', part)
is_six_digits(part) == Len(part) = 6 /\ IsDigits(part)

\* The places of a '.' with digits on both sides, up to the end of part.
DecimalPoints(part) ==
    {i \in DOMAIN part : /\ part[i] = 46
                         /\ IsDigits(SubSeq(part, 1, i - 1))
                         /\ IsDigits(SubSeq(part, i + 1, Len(part)))}

\* re.match(r'^\d+(?:\.\d+)?$', part) and '/' not in part
is_numeric(part) == IsDigits(part) \/ DecimalPoints(part) # {}

RECURSIVE Pow10(_)
Pow10(n) == IF n = 0 THEN 1 ELSE 10 * Pow10(n - 1)

\* float(part) of a text is_numeric accepts, as an exact fraction
float(part) ==
    IF IsDigits(part) THEN Frac(ParseInt(part), 1)
    ELSE LET i == CHOOSE i \in DecimalPoints(part) : TRUE
         IN Frac(ParseInt(SubSeq(part, 1, i - 1) \o SubSeq(part, i + 1, Len(part))),
                 Pow10(Len(part) - i))

\* The value of a '# of Order' or 'Price' field: a float, a str or None.
Float(f) == [kind |-> "float", value |-> f]
Text(t) == [kind |-> "str", value |-> t]
NoValue == [kind |-> "None", value |-> <<>>]

\* float(x) of a field value: ok is FALSE where Python raises.
to_float(x) ==
    IF x.kind = "float" THEN [ok |-> TRUE, value |-> x.value]
    ELSE IF x.kind = "str" /\ is_numeric(strip(x.value))
         THEN [ok |-> TRUE, value |-> float(strip(x.value))]
    ELSE IF /\ x.kind = "str" /\ strip(x.value) # <<>>
            /\ strip(x.value)[1] = 45 /\ is_numeric(Tail(strip(x.value)))
         THEN [ok |-> TRUE,
               value |-> Frac(0 - float(Tail(strip(x.value))).num,
                              float(Tail(strip(x.value))).den)]
    ELSE [ok |-> FALSE, value |-> Frac(0, 1)]

\* item.get(field) and str(item.get(field)).strip()
required_present(v) == v # <<>> /\ strip(v) # <<>>

is_valid_AnyPrice(item) ==
    /\ required_present(item.po_no)
    /\ required_present(item.store_id)
    /\ required_present(item.internal_reference)
    /\ to_float(item.num_of_order).ok
    /\ to_float(item.num_of_order).value.num > 0

\* The test of one item in validate_po_data.
is_valid(item) ==
    /\ required_present(item.po_no)
    /\ required_present(item.store_id)
    /\ required_present(item.internal_reference)
    /\ to_float(item.num_of_order).ok
    /\ to_float(item.price).ok
    /\ to_float(item.num_of_order).value.num > 0
    /\ to_float(item.price).value.num > 0

\* PDFExtractor.validate_po_data
validate_po_data(items) ==
    LET kept == SelectSeq(items, is_valid)
    IN [i \in DOMAIN kept |->
           [kept[i] EXCEPT !.num_of_order = Float(to_float(@).value),
                           !.price = Float(to_float(@).value)]]

(***************************************************************************)
(* extract_from_file: one line of one page.                                *)
(***************************************************************************)
\* re.search finds the leftmost match of a header pattern in the line.
matches_of(line, kind) == SelectSeq(line, LAMBDA t : t.kind = kind)
has_match(line, kind) == matches_of(line, kind) # <<>>
first_match(line, kind) == matches_of(line, kind)[1]

\* current_po = {} : no key is set.
empty_po ==
    [po_no |-> None, store_name |-> None, store_id |-> None,
     order_date |-> None, delivery_date |-> None]

with_headers_Reset(po, line) ==
    IF has_match(line, "PO No.")
    THEN [empty_po EXCEPT !.po_no = first_match(line, "PO No.").text]
    ELSE po

\* The four header patterns, each writing its own keys of current_po.
with_headers(po, line) ==
    [po_no |-> IF has_match(line, "PO No.")
               THEN first_match(line, "PO No.").text ELSE po.po_no,
     store_name |-> IF has_match(line, "Store")
                    THEN strip(first_match(line, "Store").name) ELSE po.store_name,
     store_id |-> IF has_match(line, "Store")
                  THEN first_match(line, "Store").text ELSE po.store_id,
     order_date |-> IF has_match(line, "Order Date")
                    THEN first_match(line, "Order Date").text ELSE po.order_date,
     delivery_date |-> IF has_match(line, "Delivery Date")
                       THEN first_match(line, "Delivery Date").text
                       ELSE po.delivery_date]

\* re.match(r'^\d{6}\b', line)
begins_with_code(line) ==
    /\ line # <<>>
    /\ line[1].kind = "text"
    /\ LET t == line[1].text
       IN /\ Len(t) >= 6
          /\ IsDigits(SubSeq(t, 1, 6))
          /\ (Len(t) = 6 \/ ~IsWordChar(t[7]))

\* numeric_values: the numeric parts after parts[0], six-digit parts skipped
numeric_values(line) ==
    LET kept == SelectSeq(Tail(line),
                          LAMBDA t : /\ t.kind = "text"
                                     /\ ~is_six_digits(t.text)
                                     /\ is_numeric(t.text))
    IN [i \in DOMAIN kept |-> float(kept[i].text)]

ordered_qty(values) ==
    IF Len(values) >= 3 THEN values[Len(values) - 2] ELSE values[Len(values) - 1]

price(values) ==
    IF Len(values) >= 3 THEN values[Len(values) - 1] ELSE values[Len(values)]

\* item_data; at is the place of the item line in the document.
item_data(po, line, values, at) ==
    [po_no |-> po.po_no, store_id |-> po.store_id, store_name |-> po.store_name,
     order_date |-> po.order_date, delivery_date |-> po.delivery_date,
     internal_reference |-> line[1].text,
     num_of_order |-> Float(ordered_qty(values)),
     price |-> Float(price(values)),
     at |-> at]

items_of_Ungated(po, line, at) ==
    IF begins_with_code(line) /\ Len(line) >= 3 /\ Len(numeric_values(line)) >= 2
    THEN <<item_data(po, line, numeric_values(line), at)>>
    ELSE <<>>

\* The items one line adds to data, current_po being po after the headers.
items_of(po, line, at) ==
    IF /\ po.po_no # None
       /\ begins_with_code(line)
       /\ Len(line) >= 3
       /\ Len(numeric_values(line)) >= 2
    THEN <<item_data(po, line, numeric_values(line), at)>>
    ELSE <<>>

(***************************************************************************)
(* extract_from_file as steps: a page without text is skipped, a line is   *)
(* read, and after the last page the collected items are validated.        *)
(***************************************************************************)
\* page.extract_text() raises on page p of the document being processed.
raises(p) == file_num \in DOMAIN files /\ p \in files[file_num].raising

PageError(p) == [kind |-> "Error processing page", n |-> p]
OpeningError == [kind |-> "Error opening PDF", n |-> 0]

NoText ==
    /\ scan = "scanning"
    /\ page_num <= Len(pdf)
    /\ ~raises(page_num)
    /\ pdf[page_num] = <<>>
    /\ page_num' = page_num + 1
    /\ line_num' = 1
    /\ UNCHANGED <<pdf, current_po, data, valid_data, errors, scan>>
    /\ UNCHANGED pipeline_vars
    /\ UNCHANGED batch_vars

PageRaises_Abort ==
    /\ scan = "scanning"
    /\ page_num <= Len(pdf)
    /\ raises(page_num)
    /\ errors' = Append(errors, PageError(page_num))
    /\ page_num' = Len(pdf) + 1
    /\ line_num' = 1
    /\ UNCHANGED <<pdf, current_po, data, valid_data, scan>>
    /\ UNCHANGED pipeline_vars
    /\ UNCHANGED batch_vars

\* except Exception around one page: the diagnostic, then the next page.
PageRaises ==
    /\ scan = "scanning"
    /\ page_num <= Len(pdf)
    /\ raises(page_num)
    /\ errors' = Append(errors, PageError(page_num))
    /\ page_num' = page_num + 1
    /\ line_num' = 1
    /\ UNCHANGED <<pdf, current_po, data, valid_data, scan>>
    /\ UNCHANGED pipeline_vars
    /\ UNCHANGED batch_vars

ReadLine ==
    /\ scan = "scanning"
    /\ page_num <= Len(pdf)
    /\ ~raises(page_num)
    /\ line_num <= Len(pdf[page_num])
    /\ LET line == pdf[page_num][line_num]
           po == with_headers(current_po, line)
       IN /\ current_po' = (IF line = <<>> THEN current_po ELSE po)
          /\ data' = data \o (IF line = <<>> THEN <<>>
                              ELSE items_of(po, line,
                                            [page |-> page_num, line |-> line_num]))
    /\ IF line_num = Len(pdf[page_num])
       THEN page_num' = page_num + 1 /\ line_num' = 1
       ELSE page_num' = page_num /\ line_num' = line_num + 1
    /\ UNCHANGED <<pdf, valid_data, errors, scan>>
    /\ UNCHANGED pipeline_vars
    /\ UNCHANGED batch_vars

Dropped(n) == [kind |-> "Dropped invalid items", n |-> n]

Return ==
    /\ scan = "scanning"
    /\ page_num > Len(pdf)
    /\ valid_data' = validate_po_data(data)
    /\ errors' = errors \o
                  (IF Len(validate_po_data(data)) < Len(data)
                   THEN <<Dropped(Len(data) - Len(validate_po_data(data)))>>
                   ELSE <<>>)
    /\ scan' = "returned"
    /\ UNCHANGED <<pdf, page_num, line_num, current_po, data>>
    /\ UNCHANGED pipeline_vars
    /\ UNCHANGED batch_vars

(***************************************************************************)
(* process_multiple_pdfs as steps: each document of the batch is handed to *)
(* extract_from_file, what it returns is appended, and after the last      *)
(* document the table is built and sorted.  Appended items and diagnostics *)
(* are marked with the number of the document they came from.              *)
(***************************************************************************)
OpenFile_KeepHeaders ==
    /\ batch = "running"
    /\ scan = "idle"
    /\ file_num <= Len(files)
    /\ data' = <<>>
    /\ valid_data' = <<>>
    /\ page_num' = 1
    /\ line_num' = 1
    /\ current_po' = current_po
    /\ IF files[file_num].opens
       THEN /\ pdf' = files[file_num].pages
            /\ errors' = <<>>
            /\ scan' = "scanning"
       ELSE /\ pdf' = <<>>
            /\ errors' = <<OpeningError>>
            /\ scan' = "returned"
    /\ UNCHANGED pipeline_vars
    /\ UNCHANGED batch_vars

\* The call of extract_from_file: data, current_po and errors start empty;
\* pdfplumber.open either gives the pages or raises, and then the call
\* returns no items and the one diagnostic.
OpenFile ==
    /\ batch = "running"
    /\ scan = "idle"
    /\ file_num <= Len(files)
    /\ data' = <<>>
    /\ valid_data' = <<>>
    /\ page_num' = 1
    /\ line_num' = 1
    /\ current_po' = empty_po
    /\ IF files[file_num].opens
       THEN /\ pdf' = files[file_num].pages
            /\ errors' = <<>>
            /\ scan' = "scanning"
       ELSE /\ pdf' = <<>>
            /\ errors' = <<OpeningError>>
            /\ scan' = "returned"
    /\ UNCHANGED pipeline_vars
    /\ UNCHANGED batch_vars

from_file(rows, f) == [i \in DOMAIN rows |-> rows[i] @@ ("file" :> f)]

\* all_data.extend(data); all_errors.extend(errors)
Extend ==
    /\ batch = "running"
    /\ scan = "returned"
    /\ all_data' = all_data \o from_file(valid_data, file_num)
    /\ all_errors' = all_errors \o from_file(errors, file_num)
    /\ file_num' = file_num + 1
    /\ scan' = "idle"
    /\ UNCHANGED <<pdf, page_num, line_num, current_po, data, valid_data, errors>>
    /\ UNCHANGED <<files, returned_df, batch>>
    /\ UNCHANGED pipeline_vars

\* pd.to_numeric of 'Store ID' and 'PO No.'
to_numeric(rows) ==
    [i \in DOMAIN rows |->
        [rows[i] EXCEPT !.store_id = ParseInt(@), !.po_no = ParseInt(@)]]

RECURSIVE insert(_, _)
\* row goes after the rows whose (Store ID, PO No.) is not greater.
insert(sorted, row) ==
    IF sorted = <<>> THEN <<row>>
    ELSE IF \/ sorted[1].store_id < row.store_id
            \/ /\ sorted[1].store_id = row.store_id
               /\ sorted[1].po_no <= row.po_no
    THEN <<sorted[1]>> \o insert(Tail(sorted), row)
    ELSE <<row>> \o sorted

RECURSIVE sort_values(_)
\* df.sort_values(by=['Store ID', 'PO No.'])
sort_values(rows) ==
    IF rows = <<>> THEN <<>>
    ELSE insert(sort_values(SubSeq(rows, 1, Len(rows) - 1)), rows[Len(rows)])

\* After the last document: the table of all items, typed and sorted.
Finish ==
    /\ batch = "running"
    /\ scan = "idle"
    /\ file_num > Len(files)
    /\ returned_df' = sort_values(to_numeric(all_data))
    /\ batch' = "returned"
    /\ UNCHANGED <<files, file_num, all_data, all_errors>>
    /\ UNCHANGED scan_vars
    /\ UNCHANGED pipeline_vars

(***************************************************************************)
(* The documents and the item lists explored.                              *)
(***************************************************************************)
\* "005" and "009": the three digits after the dash of a Store header.
StoreId(n) == <<48, 48>> \o Str(n)
\* "d/1/2025"
Date(d) == Str(d) \o <<47>> \o Str(1) \o <<47>> \o Str(2025)
\* "500g/8" and "12.50"
SizePack == Word(<<53, 48, 48, 103, 47, 56>>)
Decimal == Word(<<49, 50, 46, 53, 48>>)
Desc == Word(<<84, 101, 97>>)
Num(n) == Word(Str(n))

PoLine(n) == <<HeaderToken("PO No.", <<>>, Str(n))>>
StoreLine(name, n) == <<HeaderToken("Store", name, StoreId(n))>>
OrderDateLine(d) == <<HeaderToken("Order Date", <<>>, Date(d))>>
DeliveryDateLine(d) == <<HeaderToken("Delivery Date", <<>>, Date(d))>>

\* The first page: no text, a full header block, or one without PO number.
HeaderPages ==
    {<<>>,
     <<PoLine(101), StoreLine(<<65>>, 5), OrderDateLine(2), DeliveryDateLine(3)>>,
     <<PoLine(101), StoreLine(<<65>>, 5)>>,
     <<StoreLine(<<65>>, 5), <<>>, OrderDateLine(2)>>}

\* The lines of the second page: headers that overwrite, and item lines with
\* three, two and one numeric parts, with a six-digit vendor number, with a
\* six-digit quantity, with quantity 0, and with a PO number on the line.
ScanLines ==
    {PoLine(102),
     StoreLine(<<66>>, 9),
     DeliveryDateLine(4),
     <<Num(100001), Desc, SizePack, Num(2), Num(12), Num(24)>>,
     <<Num(100002), Desc, Num(1), Decimal>>,
     <<Num(100001), Desc, Num(5)>>,
     <<Num(100001), Num(200000), Num(3), Num(12), Num(36)>>,
     <<Num(100002), Desc, Num(100000), Num(5), Num(7)>>,
     <<Num(100002), Desc, Num(0), Num(12)>>,
     <<Num(100001), HeaderToken("PO No.", <<>>, Str(103)), Num(1), Num(12)>>}

ExtractInputs ==
    /\ \E first \in HeaderPages, second \in SeqsUpTo(ScanLines, MaxPageLines) :
          pdf = <<first, second>>
    /\ data = <<>>

\* Items as a caller of validate_po_data may pass them.
RawItem(po_no, store_id, internal_reference, num_of_order, price_value) ==
    [po_no |-> po_no, store_id |-> store_id, store_name |-> <<65>>,
     order_date |-> Date(2), delivery_date |-> Date(3),
     internal_reference |-> internal_reference,
     num_of_order |-> num_of_order, price |-> price_value,
     at |-> [page |-> 0, line |-> 0]]

RawItems ==
    {RawItem(Str(101), StoreId(5), Str(100001), Float(Frac(2, 1)), Float(Frac(12, 1))),
     RawItem(Str(102), StoreId(9), Str(100002), Text(<<32, 51>>), Text(<<49, 50, 46, 53, 48>>)),
     RawItem(<<>>, StoreId(5), Str(100001), Float(Frac(2, 1)), Float(Frac(12, 1))),
     RawItem(Str(101), <<32, 32>>, Str(100001), Float(Frac(2, 1)), Float(Frac(12, 1))),
     RawItem(Str(101), StoreId(5), <<>>, Float(Frac(2, 1)), Float(Frac(12, 1))),
     RawItem(Str(101), StoreId(5), Str(100001), Float(Frac(0, 1)), Float(Frac(12, 1))),
     RawItem(Str(101), StoreId(5), Str(100001), Text(<<97, 98, 99>>), Float(Frac(12, 1))),
     RawItem(Str(101), StoreId(5), Str(100001), Float(Frac(2, 1)), Text(<<45, 49>>)),
     RawItem(Str(101), StoreId(5), Str(100001), Float(Frac(2, 1)), NoValue)}

ValidateInputs ==
    /\ pdf = <<>>
    /\ data \in SeqsUpTo(RawItems, MaxRecords)

\* The pipeline pages have nothing yet while the upload is processed.
UploadPage ==
    /\ po_df = <<>>
    /\ product_variants = <<>>
    /\ starting_so_ref = 391
    /\ order_summaries = <<>>
    /\ line_details = <<>>
    /\ transform_errors = <<>>
    /\ historical_sales = <<>>
    /\ store_inventory = <<>>
    /\ supabase_client = FALSE
    /\ page = "upload"
    /\ runs = 0

ScanInit ==
    /\ \/ ExtractInputs
       \/ ValidateInputs
    /\ page_num = 1
    /\ line_num = 1
    /\ current_po = empty_po
    /\ valid_data = <<>>
    /\ errors = <<>>
    /\ scan = "scanning"
    /\ files = <<>>
    /\ file_num = 1
    /\ all_data = <<>>
    /\ all_errors = <<>>
    /\ returned_df = <<>>
    /\ batch = "idle"
    /\ UploadPage

ScanNext ==
    \/ NoText
    \/ ReadLine
    \/ Return

ScanSpec == ScanInit /\ [][ScanNext]_vars

(***************************************************************************)
(* The batches explored: documents that open or not, with pages that raise *)
(* or not, with and without a PO-number header of their own.               *)
(***************************************************************************)
Doc(opens, pages, raising) ==
    [opens |-> opens, pages |-> pages, raising |-> raising]

ItemLine(code, qty) == <<Num(code), Desc, Num(qty), Num(12)>>

Docs ==
    {Doc(FALSE, <<>>, {}),
     Doc(TRUE, <<<<PoLine(101), StoreLine(<<65>>, 5), OrderDateLine(2),
                   DeliveryDateLine(3)>>,
                 <<>>,
                 <<ItemLine(100001, 2)>>>>, {}),
     Doc(TRUE, <<<<StoreLine(<<66>>, 9), ItemLine(100002, 1)>>>>, {}),
     Doc(TRUE, <<<<PoLine(102), StoreLine(<<66>>, 9)>>, <<>>,
                 <<ItemLine(100002, 3)>>>>, {2}),
     Doc(TRUE, <<<<>>, <<PoLine(103), StoreLine(<<65>>, 5),
                        ItemLine(100001, 0), ItemLine(100002, 1)>>>>, {1}),
     Doc(TRUE, <<<<ItemLine(100001, 1), OrderDateLine(4)>>>>, {})}

BatchInit ==
    /\ files \in UNION {[1..n -> Docs] : n \in 1..MaxFiles}
    /\ file_num = 1
    /\ all_data = <<>>
    /\ all_errors = <<>>
    /\ returned_df = <<>>
    /\ batch = "running"
    /\ pdf = <<>>
    /\ page_num = 1
    /\ line_num = 1
    /\ current_po = empty_po
    /\ data = <<>>
    /\ valid_data = <<>>
    /\ errors = <<>>
    /\ scan = "idle"
    /\ UploadPage

BatchNext ==
    \/ OpenFile
    \/ NoText
    \/ PageRaises
    \/ ReadLine
    \/ Return
    \/ Extend
    \/ Finish

BatchSpec == BatchInit /\ [][BatchNext]_vars

(***************************************************************************)
(* Vocabulary of the scanner claims.                                       *)
(***************************************************************************)
\* The places of the document's lines, in reading order.
Places ==
    UNION {{[page |-> p, line |-> l] : l \in DOMAIN pdf[p]} : p \in DOMAIN pdf}
LineAt(at) == pdf[at.page][at.line]
AtOrBefore(a, b) == a.page < b.page \/ (a.page = b.page /\ a.line <= b.line)

\* The places at or before at of the lines a header pattern matches.
HeadersBefore(kind, at) ==
    {h \in Places : AtOrBefore(h, at) /\ has_match(LineAt(h), kind)}

\* The latest of them.
LastHeader(kind, at) ==
    CHOOSE h \in HeadersBefore(kind, at) :
        \A g \in HeadersBefore(kind, at) : AtOrBefore(g, h)

(***************************************************************************)
(* C12  Item-line gate.  Every item extract_from_file has collected or     *)
(* returned comes from a line that begins with a six-digit code and has a  *)
(* PO-number header at or before it in the document; no item comes from a  *)
(* line before the first PO-number header.                                 *)
(***************************************************************************)
C12_ItemLineGate ==
    pdf # <<>> =>
        \A i \in DOMAIN data :
            /\ data[i].at \in Places
            /\ begins_with_code(LineAt(data[i].at))
            /\ data[i].internal_reference = LineAt(data[i].at)[1].text
            /\ HeadersBefore("PO No.", data[i].at) # {}

\* An item line before the first PO number gave nothing, one after it an item.
C12_Witness ==
    /\ scan = "returned"
    /\ pdf # <<>>
    /\ \E a, b \in Places :
          /\ begins_with_code(LineAt(a))
          /\ Len(numeric_values(LineAt(a))) >= 2
          /\ HeadersBefore("PO No.", a) = {}
          /\ \A i \in DOMAIN data : data[i].at # a
          /\ AtOrBefore(a, b)
          /\ \E i \in DOMAIN data : data[i].at = b

(***************************************************************************)
(* C13  Header carry-forward.  Every item extract_from_file has collected  *)
(* carries, for order number, store id, store name, order date and         *)
(* delivery date, the value of the latest header line of that kind at or   *)
(* before its item line, on whichever page, and no value when there is     *)
(* none; a later PO number leaves the other fields as they are.            *)
(***************************************************************************)
Carried(kind, at) ==
    IF HeadersBefore(kind, at) = {} THEN None
    ELSE first_match(LineAt(LastHeader(kind, at)), kind).text

C13_HeaderCarryForward ==
    pdf # <<>> =>
        \A i \in DOMAIN data :
            LET at == data[i].at
            IN /\ data[i].po_no = Carried("PO No.", at)
               /\ data[i].store_id = Carried("Store", at)
               /\ data[i].store_name =
                      (IF HeadersBefore("Store", at) = {} THEN None
                       ELSE first_match(LineAt(LastHeader("Store", at)), "Store").name)
               /\ data[i].order_date = Carried("Order Date", at)
               /\ data[i].delivery_date = Carried("Delivery Date", at)

\* An item of page 2 under PO 102 of page 2, with the store and the order
\* date of page 1 and the delivery date overwritten on page 2.
C13_Witness ==
    /\ scan = "returned"
    /\ \E i \in DOMAIN valid_data :
          /\ valid_data[i].at.page = 2
          /\ valid_data[i].po_no = Str(102)
          /\ valid_data[i].store_id = StoreId(5)
          /\ valid_data[i].order_date = Date(2)
          /\ valid_data[i].delivery_date = Date(4)

(***************************************************************************)
(* C14  Positional quantity/price rule, as claimed.  With the numeric      *)
(* tokens of an item line other than the reference code and the size/pack  *)
(* token taken left to right, an item has quantity = third-from-last and   *)
(* price = second-from-last when three or more remain, quantity =          *)
(* second-from-last and price = last when exactly two remain, and a line   *)
(* with fewer than two gives no item.                                      *)
(***************************************************************************)
\* The numeric tokens after the reference code; the size/pack token, with
\* its '/', is not numeric.
NumericTokens(line) ==
    LET kept == SelectSeq(Tail(line),
                          LAMBDA t : t.kind = "text" /\ is_numeric(t.text))
    IN [i \in DOMAIN kept |-> float(kept[i].text)]

C14_PositionalRule ==
    pdf # <<>> =>
        \A i \in DOMAIN data :
            LET tokens == NumericTokens(LineAt(data[i].at))
                n == Len(tokens)
            IN /\ n >= 2
               /\ n >= 3 => /\ data[i].num_of_order = Float(tokens[n - 2])
                            /\ data[i].price = Float(tokens[n - 1])
               /\ n = 2 => /\ data[i].num_of_order = Float(tokens[1])
                           /\ data[i].price = Float(tokens[2])

(***************************************************************************)
(* C15  Line Validator.  What extract_from_file returns is the             *)
(* order-preserving sub-list of the collected items whose order number,    *)
(* store id and reference code are all non-empty and whose quantity and    *)
(* price both parse as numbers > 0, each with its quantity and price as    *)
(* those numbers; nothing else is returned, so every returned item         *)
(* satisfies these conditions.                                             *)
(***************************************************************************)
NonEmpty(v) == \E k \in DOMAIN v : v[k] # 32

ParsesPositive(x) == to_float(x).ok /\ to_float(x).value.num > 0

Acceptable(item) ==
    /\ NonEmpty(item.po_no)
    /\ NonEmpty(item.store_id)
    /\ NonEmpty(item.internal_reference)
    /\ ParsesPositive(item.num_of_order)
    /\ ParsesPositive(item.price)

\* The places in data of its acceptable items, ascending.
AcceptablePlaces == Sorted({i \in DOMAIN data : Acceptable(data[i])})

C15_LineValidator ==
    scan = "returned" =>
        /\ Len(valid_data) = Len(AcceptablePlaces)
        /\ \A k \in DOMAIN valid_data :
              LET item == data[AcceptablePlaces[k]]
              IN /\ valid_data[k] =
                        [item EXCEPT !.num_of_order = Float(to_float(@).value),
                                     !.price = Float(to_float(@).value)]
                 /\ Acceptable(valid_data[k])

\* A list of two items passed to validate_po_data: a text quantity " 3" is
\* kept as 3, the item before it is dropped for its price.
C15_Witness ==
    /\ scan = "returned"
    /\ pdf = <<>>
    /\ Len(data) = 2
    /\ ~ParsesPositive(data[1].price)
    /\ data[2].num_of_order = Text(<<32, 51>>)
    /\ Len(valid_data) = 1
    /\ valid_data[1].num_of_order = Float(Frac(3, 1))

(***************************************************************************)
(* Vocabulary of the batch claims: the same, of a document of the batch.   *)
(***************************************************************************)
DocPlaces(d) ==
    UNION {{[page |-> p, line |-> l] : l \in DOMAIN d.pages[p]} :
              p \in DOMAIN d.pages}
DocLine(d, at) == d.pages[at.page][at.line]

\* The places at or before at of the lines of d a header pattern matches.
DocHeadersBefore(d, kind, at) ==
    {h \in DocPlaces(d) : AtOrBefore(h, at) /\ has_match(DocLine(d, h), kind)}

\* The latest of them.
DocLastHeader(d, kind, at) ==
    first_match(DocLine(d, CHOOSE h \in DocHeadersBefore(d, kind, at) :
                               \A g \in DocHeadersBefore(d, kind, at) :
                                   AtOrBefore(g, h)), kind)

\* The item lines of d: a six-digit code first, at least two numbers, and
\* a PO number at or before the line.
ItemPlaces(d) ==
    {a \in DocPlaces(d) :
        /\ begins_with_code(DocLine(d, a))
        /\ Len(DocLine(d, a)) >= 3
        /\ Len(numeric_values(DocLine(d, a))) >= 2
        /\ DocHeadersBefore(d, "PO No.", a) # {}}

\* Those with a store and with quantity and price above 0.
ValidItemPlaces(d) ==
    {a \in ItemPlaces(d) :
        /\ DocHeadersBefore(d, "Store", a) # {}
        /\ ordered_qty(numeric_values(DocLine(d, a))).num > 0
        /\ price(numeric_values(DocLine(d, a))).num > 0}

ItemsFrom(f) == {i \in DOMAIN all_data : all_data[i].file = f}
ErrorsFrom(f) == {i \in DOMAIN all_errors : all_errors[i].file = f}

(***************************************************************************)
(* C23  Failure containment in the scanner.  Of every document of the      *)
(* batch already processed: one that could not be opened has given no item *)
(* and exactly one diagnostic, the opening error; one that opened has      *)
(* given one page diagnostic per page that raised and exactly one item per *)
(* valid item line of its other pages, those after a raising page          *)
(* included.  The returned table holds every collected item once.          *)
(***************************************************************************)
C23_FailureContainment ==
    /\ \A f \in DOMAIN files :
          f < file_num =>
            IF ~files[f].opens
            THEN /\ ItemsFrom(f) = {}
                 /\ Cardinality(ErrorsFrom(f)) = 1
                 /\ \A i \in ErrorsFrom(f) :
                       all_errors[i].kind = "Error opening PDF"
            ELSE /\ \A p \in DOMAIN files[f].pages :
                       Cardinality({i \in ErrorsFrom(f) :
                                       /\ all_errors[i].kind = "Error processing page"
                                       /\ all_errors[i].n = p})
                           = IF p \in files[f].raising THEN 1 ELSE 0
                 /\ \A i \in ErrorsFrom(f) :
                       all_errors[i].kind # "Error opening PDF"
                 /\ {all_data[i].at : i \in ItemsFrom(f)}
                        = ValidItemPlaces(files[f])
                 /\ Cardinality(ItemsFrom(f))
                        = Cardinality(ValidItemPlaces(files[f]))
    /\ batch = "returned" =>
          /\ Len(returned_df) = Len(all_data)
          /\ \A i \in DOMAIN all_data :
                \E j \in DOMAIN returned_df :
                    /\ returned_df[j].file = all_data[i].file
                    /\ returned_df[j].at = all_data[i].at

\* A returned batch with a document that did not open and a document whose
\* item line comes after a page that raised.
C23_Witness ==
    /\ batch = "returned"
    /\ \E f \in DOMAIN files : ~files[f].opens
    /\ \E j \in DOMAIN returned_df :
          \E p \in files[returned_df[j].file].raising :
              p < returned_df[j].at.page

(***************************************************************************)
(* C25  Per-document scanner state.  Every item collected in the batch     *)
(* carries, for order number, store id, store name, order date and         *)
(* delivery date, the latest header of that kind at or before its line in  *)
(* its own document and no value when that document has none, whatever the *)
(* earlier documents held; a document without a PO-number header of its    *)
(* own gives no item.                                                      *)
(***************************************************************************)
C25_PerDocumentState ==
    \A i \in DOMAIN all_data :
        LET d == files[all_data[i].file]
            at == all_data[i].at
            Own(kind) == IF DocHeadersBefore(d, kind, at) = {} THEN None
                         ELSE DocLastHeader(d, kind, at).text
        IN /\ at \in DocPlaces(d)
           /\ DocHeadersBefore(d, "PO No.", at) # {}
           /\ all_data[i].po_no = Own("PO No.")
           /\ all_data[i].store_id = Own("Store")
           /\ all_data[i].store_name =
                  (IF DocHeadersBefore(d, "Store", at) = {} THEN None
                   ELSE DocLastHeader(d, "Store", at).name)
           /\ all_data[i].order_date = Own("Order Date")
           /\ all_data[i].delivery_date = Own("Delivery Date")

\* After a document with a PO number and dates: a document without a PO
\* number has given no item, and the item of a document without dates has
\* none.
C25_Witness ==
    /\ batch = "returned"
    /\ \E f, g, h \in DOMAIN files :
          /\ f < g /\ f < h
          /\ \E i \in ItemsFrom(f) : all_data[i].order_date # None
          /\ files[g].opens /\ files[g].raising = {}
          /\ \E a \in DocPlaces(files[g]) : begins_with_code(DocLine(files[g], a))
          /\ ItemsFrom(g) = {}
          /\ \E i \in ItemsFrom(h) : all_data[i].order_date = None

====
